---- MODULE Spec2Model ----
(***************************************************************************)
(* Model of update.py: the updater that keeps the directory `frp` in sync  *)
(* with the latest release of fatedier/frp.                                *)
(*                                                                         *)
(* The file system is a set of nodes [path, kind, data]; a path is the     *)
(* sequence of its components relative to the working directory.  One run  *)
(* of the program is the module-level code followed by main(), one action  *)
(* per system call (or per archive entry, per directory entry).  The run   *)
(* ends when main() returns, when a call raises (nothing in update.py      *)
(* catches an exception) or when the process is killed.                    *)
(***************************************************************************)
EXTENDS Integers, Sequences, FiniteSets, TLC

(***************************************************************************)
(* Bounds of the model.                                                    *)
(***************************************************************************)
MaxRuns == 2

MaxAssets == 3

(***************************************************************************)
(* Program constants (update.py lines 12-14, 68, 117).                     *)
(***************************************************************************)
LOCAL_VERSION_FILE == <<"local_version.txt">>
DOWNLOAD_DIR == <<"temp">>
EXTRACT_DIR == <<"frp">>
CANDIDATE_DIR == <<"frp-temp">>
STAGING_NAME == "temp"

(***************************************************************************)
(* Paths and file-system primitives.                                       *)
(***************************************************************************)
IsPrefix(p, q) == Len(p) <= Len(q) /\ SubSeq(q, 1, Len(p)) = p

Join(p, name) == Append(p, name)

Parent(p) == SubSeq(p, 1, Len(p) - 1)

Basename(url) == url[Len(url)]

Dir(p) == [path |-> p, kind |-> "dir", data |-> ""]

File(p, d) == [path |-> p, kind |-> "file", data |-> d]

Exists(f, p) == \E n \in f : n.path = p

IsDir(f, p) == \E n \in f : n.path = p /\ n.kind = "dir"

IsFile(f, p) == \E n \in f : n.path = p /\ n.kind = "file"

Subtree(f, p) == {n \in f : IsPrefix(p, n.path)}

Below(f, p) == {n \in f : IsPrefix(p, n.path) /\ n.path # p}

ListDir(f, p) == {n.path[Len(p) + 1] : n \in {m \in f : Len(m.path) = Len(p) + 1 /\ IsPrefix(p, m.path)}}

\* The content of directory p, with paths relative to p.
Content(f, p) == {[path |-> SubSeq(n.path, Len(p) + 1, Len(n.path)), kind |-> n.kind, data |-> n.data] : n \in Below(f, p)}

Rebase(n, src, dst) == [path |-> dst \o SubSeq(n.path, Len(src) + 1, Len(n.path)), kind |-> n.kind, data |-> n.data]

\* os.makedirs(p, exist_ok=True): every missing directory on the path is created;
\* FileExistsError when a component exists as a regular file.
MakedirsOk(f, p) == \A i \in 1..Len(p) : ~IsFile(f, SubSeq(p, 1, i))

Makedirs(f, p) == f \cup {Dir(SubSeq(p, 1, i)) : i \in {j \in 1..Len(p) : ~Exists(f, SubSeq(p, 1, j))}}

\* os.rename(src, dst) on Linux: a file replaces a file, a directory replaces an
\* empty directory; a directory over a non-empty directory is ENOTEMPTY, a file over
\* a directory EISDIR, a directory over a file ENOTDIR, a directory into itself EINVAL.
RenameOk(f, src, dst) ==
    /\ Exists(f, src)
    /\ IsDir(f, Parent(dst)) \/ Len(dst) = 1
    /\ ~(IsPrefix(src, dst) /\ src # dst)
    /\ IF IsDir(f, src)
       THEN ~IsFile(f, dst) /\ Below(f, dst) = {}
       ELSE ~IsDir(f, dst)

Rename(f, src, dst) ==
    IF src = dst THEN f
    ELSE (f \ (Subtree(f, src) \cup Subtree(f, dst))) \cup {Rebase(n, src, dst) : n \in Subtree(f, src)}

\* os.rmdir(p): only an empty directory can be removed.
RmdirOk(f, p) == IsDir(f, p) /\ Below(f, p) = {}

Rmdir(f, p) == f \ Subtree(f, p)

(***************************************************************************)
(* Version strings.  A tag is its optional "v" prefix and its release      *)
(* numbers; the text of the version file is a sequence of at most one tag  *)
(* (the empty sequence is the empty file).                                 *)
(***************************************************************************)
Tag(prefix, a, b, c) == [prefix |-> prefix, release |-> <<a, b, c>>]

\* packaging.version.parse: the prefix "v" is dropped, the release is compared
\* number by number.
parse(tag) == tag.release

VersionGT(x, y) ==
    \/ x[1] > y[1]
    \/ x[1] = y[1] /\ x[2] > y[2]
    \/ x[1] = y[1] /\ x[2] = y[2] /\ x[3] > y[3]

(***************************************************************************)
(* The remote side: releases, their assets and the archives they serve.    *)
(***************************************************************************)
UrlOf(name) == <<"https:", "", "github.com", "fatedier", "frp", "releases", "download", name>>

\* An asset of a release; `served` is the remote's side of it: the bytes a complete
\* download of its URL can store ("A", "B": the intact archives, "A!", "B!": archives
\* cut short, "junk": no gzip archive).
Asset(name, served) == [name |-> name, browser_download_url |-> UrlOf(name), served |-> served]

\* re.match(ARCHIVE_NAME_PATTERN, name) over the asset names of the model: the
\* pattern is anchored at the start of the name only.
ARCHIVE_NAME_PATTERN ==
    {"frp_1.9.0_linux_amd64.tar.gz", "frp_1.10.0_linux_amd64.tar.gz", "frp_1.10.0_linux_amd64.tar.gz.sha256",
     "frp_1.11.0_linux_amd64.tar.gz", "frp_1.12.0_linux_amd64.tar.gz", "frp_1.13.0_linux_amd64.tar.gz",
     "frp_1.14.0_linux_amd64.tar.gz"}

re_match(name) == name \in ARCHIVE_NAME_PATTERN

EntriesA ==
    << Dir(<<"frp_a">>), File(<<"frp_a", "frps">>, "a"),
       Dir(<<"frp_a", "conf">>), File(<<"frp_a", "conf", "ini">>, "a") >>

EntriesB ==
    << Dir(<<"frp_b">>), File(<<"frp_b", "frps">>, "b"), File(<<"frp_b", "frpc">>, "b") >>

\* A payload with a sub-directory of the same name as one of archive A.
EntriesD ==
    << Dir(<<"frp_d">>), Dir(<<"frp_d", "conf">>), File(<<"frp_d", "conf", "ini">>, "d") >>

\* An archive with an entry whose name climbs out of the directory it is extracted in.
EntriesE ==
    << Dir(<<"frp_e">>), File(<<"frp_e", "frps">>, "e"), File(<<"..", "..", "evil">>, "e") >>

\* An archive with a regular file at its top level.
EntriesF ==
    << Dir(<<"frp_f">>), File(<<"frp_f", "frps">>, "f"), File(<<"README">>, "f") >>

\* An archive with two top-level directories.
EntriesG ==
    << Dir(<<"frp_g">>), File(<<"frp_g", "frps">>, "g"), Dir(<<"extra">>), File(<<"extra", "frpc">>, "g") >>

\* What tarfile makes of the bytes of an archive file: `opens` is whether
\* tarfile.open finds a gzip header and a first member, `good` the number of
\* entries that can be read before a ReadError.
Archive(data) ==
    CASE data = "A" -> [entries |-> EntriesA, opens |-> TRUE, good |-> Len(EntriesA)]
      [] data = "A!" -> [entries |-> EntriesA, opens |-> TRUE, good |-> Len(EntriesA) - 2]
      [] data = "B" -> [entries |-> EntriesB, opens |-> TRUE, good |-> Len(EntriesB)]
      [] data = "B!" -> [entries |-> EntriesB, opens |-> TRUE, good |-> Len(EntriesB) - 1]
      [] data = "D" -> [entries |-> EntriesD, opens |-> TRUE, good |-> Len(EntriesD)]
      [] data = "E" -> [entries |-> EntriesE, opens |-> TRUE, good |-> Len(EntriesE)]
      [] data = "F" -> [entries |-> EntriesF, opens |-> TRUE, good |-> Len(EntriesF)]
      [] data = "G" -> [entries |-> EntriesG, opens |-> TRUE, good |-> Len(EntriesG)]
      [] OTHER -> [entries |-> <<>>, opens |-> FALSE, good |-> 0]

\* The payload of an archive: what a complete installation of it contains.
Payload(data) ==
    LET es == Archive(data).entries
    IN {[path |-> SubSeq(es[i].path, 2, Len(es[i].path)), kind |-> es[i].kind, data |-> es[i].data] :
           i \in {j \in 1..Len(es) : Len(es[j].path) > 1}}

ReleaseA ==
    [tag_name |-> Tag("v", 1, 9, 0),
     assets |-> << Asset("frp_1.9.0_darwin_amd64.tar.gz", {"junk"}),
                   Asset("frp_1.9.0_linux_amd64.tar.gz", {"A", "A!", "junk"}) >>]

ReleaseB ==
    [tag_name |-> Tag("", 1, 10, 0),
     assets |-> << Asset("frp_1.10.0_linux_amd64.tar.gz", {"B", "B!"}),
                   Asset("frp_1.10.0_linux_amd64.tar.gz.sha256", {"junk"}) >>]

ReleaseC ==
    [tag_name |-> Tag("v", 2, 0, 0),
     assets |-> << Asset("frp_2.0.0_darwin_amd64.tar.gz", {"junk"}),
                   Asset("Frp_2.0.0_linux_amd64.tar.gz", {"junk"}) >>]

Releases == {ReleaseA, ReleaseB, ReleaseC}

\* Releases whose archives have other shapes.
ReleaseD ==
    [tag_name |-> Tag("v", 1, 11, 0), assets |-> << Asset("frp_1.11.0_linux_amd64.tar.gz", {"D"}) >>]

ReleaseE ==
    [tag_name |-> Tag("v", 1, 12, 0), assets |-> << Asset("frp_1.12.0_linux_amd64.tar.gz", {"E"}) >>]

ReleaseF ==
    [tag_name |-> Tag("v", 1, 13, 0), assets |-> << Asset("frp_1.13.0_linux_amd64.tar.gz", {"F"}) >>]

ReleaseG ==
    [tag_name |-> Tag("v", 1, 14, 0), assets |-> << Asset("frp_1.14.0_linux_amd64.tar.gz", {"G"}) >>]

ShapeReleases == {ReleaseA, ReleaseD, ReleaseE, ReleaseF, ReleaseG}

NoTag == Tag("", 0, 0, 0)

NoRelease == [tag_name |-> NoTag, assets |-> <<>>]

AllAssets == UNION {{r.assets[i] : i \in 1..Len(r.assets)} : r \in Releases \cup ShapeReleases}

\* The bytes a complete download of url can store.
Served(url) == UNION {a.served : a \in {b \in AllAssets : b.browser_download_url = url}}

(***************************************************************************)
(* State.                                                                  *)
(***************************************************************************)
VARIABLES
    fs,             \* the working directory: a set of nodes
    versionFile,    \* local_version.txt: [exists, text]
    pc,             \* the position of the running process, "idle" when none runs
    runs,           \* the number of runs started
    release,        \* what the release host reports during this run
    latest_version, \* main: latest_release_info["tag_name"]
    asset_url,      \* main: the URL find_asset_url returned (<<>> is None)
    extract_to,     \* extract_tar_gz: its argument
    idx,            \* extract_tar_gz: the next archive entry of extractall
    members,        \* extract_tar_gz: what is left of os.listdir(temp_extract_dir)
    member,         \* extract_tar_gz: the member of the outer loop
    items,          \* extract_tar_gz: what is left of os.listdir(member_path)
    rm_cur,         \* shutil.rmtree: the directory being emptied
    outcome,        \* how the last run ended, "running" during a run
    fs0,            \* the working directory when the program was started
    version0,       \* the version file when the program was started
    prev,           \* the outcome and the remote tag of the run before this one
    downloaded,     \* download_file was called in this run
    moved,          \* the rename of line 126 was done in this run
    writes,         \* the calls of write_local_version in this run
    archive         \* the bytes download_file stored in this run ("" when none)

locals == <<latest_version, asset_url, extract_to, idx, members, member, items, rm_cur>>

history == <<fs0, version0, prev, downloaded, moved, writes>>

vars == <<fs, versionFile, pc, runs, release, locals, outcome, history, archive>>

None == <<>>

Absent == [exists |-> FALSE, text |-> <<>>]

Init ==
    /\ fs = {}
    /\ versionFile = Absent
    /\ pc = "idle"
    /\ runs = 0
    /\ release = NoRelease
    /\ latest_version = NoTag
    /\ asset_url = None
    /\ extract_to = <<>>
    /\ idx = 0
    /\ members = {}
    /\ member = ""
    /\ items = {}
    /\ rm_cur = <<>>
    /\ outcome = "none"
    /\ fs0 = {}
    /\ version0 = Absent
    /\ prev = [outcome |-> "none", tag |-> NoTag]
    /\ downloaded = FALSE
    /\ moved = FALSE
    /\ writes = 0
    /\ archive = ""

\* The run ends with outcome o: main returned, or an exception left it, or the
\* process was killed.  The process's variables are gone.
End(o) ==
    /\ pc' = "idle"
    /\ outcome' = o
    /\ latest_version' = NoTag
    /\ asset_url' = None
    /\ extract_to' = <<>>
    /\ idx' = 0
    /\ members' = {}
    /\ member' = ""
    /\ items' = {}
    /\ rm_cur' = <<>>

(***************************************************************************)
(* VersionStore (lines 46-55) and ReleaseLocator (lines 84-88).            *)
(***************************************************************************)
\* read_local_version: None when the file does not exist, else its text.  The
\* text holds no white space (only write_local_version writes it, and it writes a
\* tag), so strip() has nothing to remove.
read_local_version(file) == IF ~file.exists THEN [none |-> TRUE, text |-> <<>>] ELSE [none |-> FALSE, text |-> file.text]

\* open(file_path, "w"): the file exists and is empty.
write_open(file) == [exists |-> TRUE, text |-> <<>>]

\* f.write(version) and the close of the with block: the text reaches the file.
write_flush(file, version) == [exists |-> TRUE, text |-> file.text \o <<version>>]

\* A variant that keeps the last matching asset.
RECURSIVE find_asset_url_Last(_)
find_asset_url_Last(assets) ==
    IF assets = <<>> THEN None
    ELSE LET later == find_asset_url_Last(Tail(assets))
         IN IF later # None THEN later
            ELSE IF re_match(Head(assets).name) THEN Head(assets).browser_download_url
            ELSE None

RECURSIVE find_asset_url(_)
find_asset_url(assets) ==
    IF assets = <<>> THEN None
    ELSE IF re_match(Head(assets).name) THEN Head(assets).browser_download_url
    ELSE find_asset_url(Tail(assets))

\* A variant without the test.
NoNewVersion_Never(local_version, latest) == FALSE

\* A variant that compares the release numbers as strings of digits ("10" < "9").
NoNewVersion_Lexical(local_version, latest) ==
    LET key(n) == IF n < 10 THEN n * 10 ELSE n
        x == parse(local_version.text[1])
        y == parse(latest)
    IN /\ ~local_version.none
       /\ VersionGT(<<key(x[1]), key(x[2]), key(x[3])>>, <<key(y[1]), key(y[2]), key(y[3])>>)

\* main, line 102: the test that ends the run with "No new version available".
NoNewVersion(local_version, latest) ==
    ~local_version.none /\ VersionGT(parse(local_version.text[1]), parse(latest))

(***************************************************************************)
(* The program.                                                            *)
(***************************************************************************)
\* A variant that downloads into the installation directory.
download_path_InInstall == Join(EXTRACT_DIR, Basename(asset_url))

download_path == Join(DOWNLOAD_DIR, Basename(asset_url))

temp_extract_dir == Join(extract_to, STAGING_NAME)

member_path == Join(temp_extract_dir, member)

\* The bytes of the downloaded archive file.
ArchiveData == (CHOOSE n \in fs : n.path = download_path).data

\* A path as the kernel resolves it: ".." steps to the parent.
RECURSIVE Resolve(_)
Resolve(p) ==
    IF p = <<>> THEN <<>>
    ELSE LET q == Resolve(SubSeq(p, 1, Len(p) - 1))
             c == p[Len(p)]
         IN IF c = ".." THEN (IF q = <<>> THEN <<>> ELSE SubSeq(q, 1, Len(q) - 1))
            ELSE Append(q, c)

\* tar.extractall, one entry e under root: the filter of line 70 returns every
\* entry as it is, so the entry is created at the joined path whatever it is.
ExtractOk(f, root, e) ==
    LET target == Resolve(root \o e.path)
    IN /\ target # <<>>
       /\ MakedirsOk(f, Parent(target))
       /\ IF e.kind = "dir" THEN ~IsFile(f, target) ELSE ~IsDir(f, target)

Extract(f, root, e) ==
    LET target == Resolve(root \o e.path)
    IN IF e.kind = "dir" THEN Makedirs(f, target)
       ELSE {n \in Makedirs(f, Parent(target)) : n.path # target} \cup {File(target, e.data)}

\* Line 26, at import: os.makedirs(EXTRACT_DIR, exist_ok=True).  The release host
\* reports one of the releases for the length of the run.
Start(catalog) ==
    /\ pc = "idle"
    /\ runs < MaxRuns
    /\ runs' = runs + 1
    /\ \E r \in catalog : release' = r
    /\ fs0' = fs
    /\ version0' = versionFile
    /\ prev' = [outcome |-> outcome, tag |-> release.tag_name]
    /\ downloaded' = FALSE
    /\ moved' = FALSE
    /\ writes' = 0
    /\ archive' = ""
    /\ fs' = Makedirs(fs, EXTRACT_DIR)
    /\ outcome' = "running"
    /\ pc' = "main"
    /\ UNCHANGED <<versionFile, locals>>

ModuleInit == Start(Releases)

\* The same against the releases of other shapes.
ModuleInitShapes == Start(ShapeReleases)

\* Lines 92-98: the release is fetched and the asset located.
GetLatestReleaseInfo ==
    /\ pc = "main"
    /\ \/ End("fetch_failed")
       \/ /\ find_asset_url(release.assets) = None
          /\ End("no_asset")
       \/ /\ find_asset_url(release.assets) # None
          /\ latest_version' = release.tag_name
          /\ asset_url' = find_asset_url(release.assets)
          /\ pc' = "read_local_version"
          /\ UNCHANGED <<extract_to, idx, members, member, items, rm_cur, outcome>>
    /\ UNCHANGED <<fs, versionFile, runs, release, archive, history>>

\* Lines 100-107: the stored version is read and compared.  version.parse raises
\* InvalidVersion on the empty string.
CompareVersion ==
    /\ pc = "read_local_version"
    /\ LET local_version == read_local_version(versionFile)
       IN IF ~local_version.none /\ local_version.text = <<>>
          THEN End("version_invalid")
          ELSE IF NoNewVersion(local_version, latest_version)
          THEN End("up_to_date")
          ELSE /\ pc' = "makedirs_download"
               /\ UNCHANGED <<locals, outcome>>
    /\ UNCHANGED <<fs, versionFile, runs, release, archive, history>>

\* Line 110.
MakeDownloadDir ==
    /\ pc = "makedirs_download"
    /\ fs' = Makedirs(fs, DOWNLOAD_DIR)
    /\ pc' = "download"
    /\ UNCHANGED <<versionFile, runs, release, archive, locals, outcome, history>>

\* Lines 59-61: the request is answered and the local file opened with "wb".
DownloadOpen ==
    /\ pc = "download"
    /\ fs' = {n \in fs : n.path # download_path} \cup {File(download_path, "partial")}
    /\ downloaded' = TRUE
    /\ pc' = "download_chunks"
    /\ UNCHANGED <<versionFile, runs, release, archive, locals, outcome, fs0, version0, prev, moved, writes>>

\* Lines 62-63 and 114-115: the chunks are written; extract_tar_gz is called on
\* EXTRACT_DIR.
DownloadChunks ==
    /\ pc = "download_chunks"
    /\ \E d \in Served(asset_url) :
          /\ fs' = {n \in fs : n.path # download_path} \cup {File(download_path, d)}
          /\ archive' = d
    /\ extract_to' = EXTRACT_DIR
    /\ pc' = "x_open"
    /\ UNCHANGED <<versionFile, runs, release, latest_version, asset_url, idx, members, member, items, rm_cur, outcome, history>>

\* Line 67: tarfile.open raises ReadError on a file that is no gzip archive.
TarOpen ==
    /\ pc = "x_open"
    /\ IF Archive(ArchiveData).opens
       THEN pc' = "x_makedirs" /\ UNCHANGED <<locals, outcome>>
       ELSE End("extract_failed")
    /\ UNCHANGED <<fs, versionFile, runs, release, archive, history>>

\* Lines 68-69.
MakeStagingDir ==
    /\ pc = "x_makedirs"
    /\ fs' = Makedirs(fs, temp_extract_dir)
    /\ idx' = 1
    /\ pc' = "x_extractall"
    /\ UNCHANGED <<versionFile, runs, release, archive, latest_version, asset_url, extract_to, members, member, items, rm_cur, outcome, history>>

\* Line 70, one archive entry at a time; line 72 when the archive is exhausted.
\* The run ends "extract_failed" when the archive cannot be read and
\* "extract_blocked" when what is on disk makes a call of extract_tar_gz raise.
ExtractEntry ==
    /\ pc = "x_extractall"
    /\ LET a == Archive(ArchiveData)
       IN IF idx > Len(a.entries)
          THEN /\ members' = ListDir(fs, temp_extract_dir)
               /\ pc' = "x_member"
               /\ UNCHANGED <<fs, latest_version, asset_url, extract_to, idx, member, items, rm_cur, outcome>>
          ELSE IF idx > a.good
          THEN End("extract_failed") /\ UNCHANGED fs
          ELSE IF ~ExtractOk(fs, temp_extract_dir, a.entries[idx])
          THEN End("extract_blocked") /\ UNCHANGED fs
          ELSE /\ fs' = Extract(fs, temp_extract_dir, a.entries[idx])
               /\ idx' = idx + 1
               /\ UNCHANGED <<pc, latest_version, asset_url, extract_to, members, member, items, rm_cur, outcome>>
    /\ UNCHANGED <<versionFile, runs, release, archive, history>>

\* A variant that moves the member itself into extract_to, without unwrapping it.
NextMember_NoUnwrap ==
    /\ pc = "x_member"
    /\ IF members = {}
       THEN pc' = "x_rmdir_temp" /\ UNCHANGED <<fs, members, member>>
       ELSE \E m \in members :
               /\ member' = m
               /\ RenameOk(fs, Join(temp_extract_dir, m), Join(extract_to, m))
               /\ fs' = Rename(fs, Join(temp_extract_dir, m), Join(extract_to, m))
               /\ members' = members \ {m}
               /\ UNCHANGED pc
    /\ UNCHANGED <<versionFile, runs, release, archive, latest_version, asset_url, extract_to, idx, items, rm_cur, outcome, history>>

\* Lines 72-75: the next member of the listing, in any order; a member that is no
\* directory is skipped.
NextMember ==
    /\ pc = "x_member"
    /\ IF members = {}
       THEN pc' = "x_rmdir_temp" /\ UNCHANGED <<members, member, items>>
       ELSE \E m \in members :
               /\ member' = m
               /\ IF IsDir(fs, Join(temp_extract_dir, m))
                  THEN /\ items' = ListDir(fs, Join(temp_extract_dir, m))
                       /\ pc' = "x_item"
                       /\ UNCHANGED members
                  ELSE /\ members' = members \ {m}
                       /\ UNCHANGED <<pc, items>>
    /\ UNCHANGED <<fs, versionFile, runs, release, archive, latest_version, asset_url, extract_to, idx, rm_cur, outcome, history>>

\* Lines 75-78: one item of the member is renamed into extract_to.
MoveItem ==
    /\ pc = "x_item"
    /\ IF items = {}
       THEN pc' = "x_rmdir_member" /\ UNCHANGED <<fs, locals, outcome>>
       ELSE \E item \in items :
               IF RenameOk(fs, Join(member_path, item), Join(extract_to, item))
               THEN /\ fs' = Rename(fs, Join(member_path, item), Join(extract_to, item))
                    /\ items' = items \ {item}
                    /\ UNCHANGED <<pc, latest_version, asset_url, extract_to, idx, members, member, rm_cur, outcome>>
               ELSE End("extract_blocked") /\ UNCHANGED fs
    /\ UNCHANGED <<versionFile, runs, release, archive, history>>

\* Line 79.
RmdirMember ==
    /\ pc = "x_rmdir_member"
    /\ IF RmdirOk(fs, member_path)
       THEN /\ fs' = Rmdir(fs, member_path)
            /\ members' = members \ {member}
            /\ pc' = "x_member"
            /\ UNCHANGED <<latest_version, asset_url, extract_to, idx, member, items, rm_cur, outcome>>
       ELSE End("extract_blocked") /\ UNCHANGED fs
    /\ UNCHANGED <<versionFile, runs, release, archive, history>>

\* Line 81; extract_tar_gz returns to line 117 or to line 121.
RmdirTemp ==
    /\ pc = "x_rmdir_temp"
    /\ IF RmdirOk(fs, temp_extract_dir)
       THEN /\ fs' = Rmdir(fs, temp_extract_dir)
            /\ pc' = IF extract_to = EXTRACT_DIR THEN "makedirs_candidate" ELSE "exists"
            /\ UNCHANGED <<locals, outcome>>
       ELSE End("extract_blocked") /\ UNCHANGED fs
    /\ UNCHANGED <<versionFile, runs, release, archive, history>>

\* A variant that removes the installation before the candidate is assembled.
MakeCandidateDir_RemovesFirst ==
    /\ pc = "makedirs_candidate"
    /\ fs' = Makedirs(fs \ Subtree(fs, EXTRACT_DIR), CANDIDATE_DIR)
    /\ extract_to' = CANDIDATE_DIR
    /\ pc' = "x_open"
    /\ UNCHANGED <<versionFile, runs, release, archive, latest_version, asset_url, idx, members, member, items, rm_cur, outcome, history>>

\* Lines 117-119: the candidate directory is made and extract_tar_gz called on it.
MakeCandidateDir ==
    /\ pc = "makedirs_candidate"
    /\ fs' = Makedirs(fs, CANDIDATE_DIR)
    /\ extract_to' = CANDIDATE_DIR
    /\ pc' = "x_open"
    /\ UNCHANGED <<versionFile, runs, release, archive, latest_version, asset_url, idx, members, member, items, rm_cur, outcome, history>>

\* Line 121.
CheckExisting ==
    /\ pc = "exists"
    /\ IF Exists(fs, EXTRACT_DIR)
       THEN pc' = "rmtree_extract_dir" /\ rm_cur' = EXTRACT_DIR
       ELSE pc' = "rename" /\ UNCHANGED rm_cur
    /\ UNCHANGED <<fs, versionFile, runs, release, archive, latest_version, asset_url, extract_to, idx, members, member, items, outcome, history>>

\* shutil.rmtree (lines 123 and 131), one system call at a time, depth first: an
\* entry of the directory being emptied is unlinked or entered; an empty directory
\* is removed and the walk returns to its parent.
RmtreeStep(at, root, next) ==
    /\ pc = at
    /\ IF ListDir(fs, rm_cur) # {}
       THEN \E c \in ListDir(fs, rm_cur) :
               IF IsDir(fs, Join(rm_cur, c))
               THEN rm_cur' = Join(rm_cur, c) /\ UNCHANGED <<fs, pc>>
               ELSE /\ fs' = {n \in fs : n.path # Join(rm_cur, c)}
                    /\ UNCHANGED <<rm_cur, pc>>
       ELSE /\ fs' = Rmdir(fs, rm_cur)
            /\ IF rm_cur = root
               THEN pc' = next /\ rm_cur' = <<>>
               ELSE rm_cur' = Parent(rm_cur) /\ UNCHANGED pc
    /\ UNCHANGED <<versionFile, runs, release, archive, latest_version, asset_url, extract_to, idx, members, member, items, outcome, history>>

RemoveExisting == RmtreeStep("rmtree_extract_dir", EXTRACT_DIR, "rename")

\* A variant that goes on to record the version when the rename of line 126 fails.
MoveCandidate_Swallowed ==
    /\ pc = "rename"
    /\ \/ /\ RenameOk(fs, CANDIDATE_DIR, EXTRACT_DIR)
          /\ fs' = Rename(fs, CANDIDATE_DIR, EXTRACT_DIR)
          /\ moved' = TRUE
       \/ UNCHANGED <<fs, moved>>
    /\ pc' = "write_open"
    /\ UNCHANGED <<versionFile, runs, release, archive, locals, outcome, fs0, version0, prev, downloaded, writes>>

\* Line 126.
MoveCandidate ==
    /\ pc = "rename"
    /\ IF RenameOk(fs, CANDIDATE_DIR, EXTRACT_DIR)
       THEN /\ fs' = Rename(fs, CANDIDATE_DIR, EXTRACT_DIR)
            /\ moved' = TRUE
            /\ pc' = "write_open"
            /\ UNCHANGED <<locals, outcome>>
       ELSE End("move_failed") /\ UNCHANGED <<fs, moved>>
    /\ UNCHANGED <<versionFile, runs, release, archive, fs0, version0, prev, downloaded, writes>>

\* Lines 129 and 54: write_local_version opens the file with "w".
WriteOpen ==
    /\ pc = "write_open"
    /\ versionFile' = write_open(versionFile)
    /\ writes' = writes + 1
    /\ pc' = "write_flush"
    /\ UNCHANGED <<fs, runs, release, archive, locals, outcome, fs0, version0, prev, downloaded, moved>>

\* Line 55 and the end of the with block; line 131 is next.
WriteFlush ==
    /\ pc = "write_flush"
    /\ versionFile' = write_flush(versionFile, latest_version)
    /\ pc' = "rmtree_download_dir"
    /\ rm_cur' = DOWNLOAD_DIR
    /\ UNCHANGED <<fs, runs, release, archive, latest_version, asset_url, extract_to, idx, members, member, items, outcome, history>>

RemoveDownloadDir == RmtreeStep("rmtree_download_dir", DOWNLOAD_DIR, "finish")

\* Line 132: main returns.
Finish ==
    /\ pc = "finish"
    /\ End("complete")
    /\ UNCHANGED <<fs, versionFile, runs, release, archive, history>>

\* The positions whose next call goes to the file system or the network, and what
\* the run is said to have failed at when that call raises.
FailureAt(at) ==
    CASE at \in {"read_local_version"} -> "read_failed"
      [] at \in {"makedirs_download", "download", "download_chunks"} -> "download_failed"
      [] at \in {"x_open", "x_makedirs", "x_extractall", "x_member", "x_item", "x_rmdir_member", "x_rmdir_temp", "makedirs_candidate"} -> "extract_failed"
      [] at \in {"rmtree_extract_dir"} -> "remove_failed"
      [] at \in {"rename"} -> "move_failed"
      [] at \in {"write_open", "write_flush"} -> "write_failed"
      [] at \in {"rmtree_download_dir"} -> "cleanup_failed"
      [] OTHER -> "none"

\* A call raises OSError (or requests raises): nothing catches it, the run ends
\* with the file system as the call found it.
Raise ==
    /\ FailureAt(pc) # "none"
    /\ End(FailureAt(pc))
    /\ UNCHANGED <<fs, versionFile, runs, release, archive, history>>

\* The process is killed.
Kill ==
    /\ pc # "idle"
    /\ End("killed")
    /\ UNCHANGED <<fs, versionFile, runs, release, archive, history>>

\* The steps of main.
Main ==
    \/ GetLatestReleaseInfo
    \/ CompareVersion
    \/ MakeDownloadDir
    \/ DownloadOpen
    \/ DownloadChunks
    \/ TarOpen
    \/ MakeStagingDir
    \/ ExtractEntry
    \/ NextMember
    \/ MoveItem
    \/ RmdirMember
    \/ RmdirTemp
    \/ MakeCandidateDir
    \/ CheckExisting
    \/ RemoveExisting
    \/ MoveCandidate
    \/ WriteOpen
    \/ WriteFlush
    \/ RemoveDownloadDir
    \/ Finish
    \/ Raise
    \/ Kill

Next == ModuleInit \/ Main

NextShapes == ModuleInitShapes \/ Main

Spec == Init /\ [][Next]_vars

SpecShapes == Init /\ [][NextShapes]_vars

\* The locator alone: main is entered with any manifest of at most MaxAssets
\* assets.
RECURSIVE Manifests(_)
Manifests(n) ==
    IF n = 0 THEN {<<>>}
    ELSE Manifests(n - 1) \cup {Append(m, a) : m \in {k \in Manifests(n - 1) : Len(k) = n - 1}, a \in AllAssets}

InitLocator ==
    /\ fs = Makedirs({}, EXTRACT_DIR)
    /\ versionFile = Absent
    /\ pc = "main"
    /\ runs = 1
    /\ \E m \in Manifests(MaxAssets) : release = [tag_name |-> Tag("v", 1, 9, 0), assets |-> m]
    /\ latest_version = NoTag
    /\ asset_url = None
    /\ extract_to = <<>>
    /\ idx = 0
    /\ members = {}
    /\ member = ""
    /\ items = {}
    /\ rm_cur = <<>>
    /\ outcome = "running"
    /\ fs0 = {}
    /\ version0 = Absent
    /\ prev = [outcome |-> "none", tag |-> NoTag]
    /\ downloaded = FALSE
    /\ moved = FALSE
    /\ writes = 0
    /\ archive = ""

SpecLocator == InitLocator /\ [][GetLatestReleaseInfo]_vars

TypeOK ==
    /\ \A n \in fs : n.kind \in {"dir", "file"}
    /\ \A n \in fs : Len(n.path) > 1 => IsDir(fs, Parent(n.path))
    /\ \A n, m \in fs : n.path = m.path => n = m
    /\ runs \in 0..MaxRuns

(***************************************************************************)
(* The properties.                                                         *)
(***************************************************************************)
\* The installation directory now, when the program was started, and when main
\* was entered (after line 26).
Install == Subtree(fs, EXTRACT_DIR)

InstallAtStart == Subtree(fs0, EXTRACT_DIR)

InstallAtEntry == Subtree(Makedirs(fs0, EXTRACT_DIR), EXTRACT_DIR)

\* The run has passed the version test of line 102.
Proceeded == pc \notin {"idle", "main", "read_local_version"} \/ downloaded

\* No version was stored at the start, or the remote tag is strictly newer.
RemoteNewer ==
    \/ ~version0.exists
    \/ version0.text # <<>> /\ VersionGT(parse(release.tag_name), parse(version0.text[1]))

RemoteEqual ==
    version0.exists /\ version0.text # <<>> /\ parse(release.tag_name) = parse(version0.text[1])

\* The intact archive of a release, and the installations of the model.
IntactArchive(r) ==
    CHOOSE d \in Served(find_asset_url(r.assets)) :
        Archive(d).opens /\ Archive(d).good = Len(Archive(d).entries)

Scratch(f) ==
    Exists(f, DOWNLOAD_DIR) \/ Exists(f, CANDIDATE_DIR) \/ Exists(f, Join(EXTRACT_DIR, STAGING_NAME))
        \/ Exists(f, Join(CANDIDATE_DIR, STAGING_NAME))

\* C1: main proceeds to download and install if and only if no local version is
\* stored or the remote tag's parsed version is strictly greater than the stored
\* one; with equal versions nothing is downloaded, installed or written.
C1_ProceedsIffNewer ==
    /\ Proceeded => RemoteNewer
    /\ outcome = "up_to_date" => ~RemoteNewer
    /\ RemoteEqual => ~downloaded /\ ~moved /\ writes = 0

\* C2: in every state of a run the installation directory does not exist, or holds
\* the complete prior installation, or holds the complete new installation.
C2_InstallNeverMixed ==
    Exists(fs, EXTRACT_DIR) =>
        \/ Content(fs, EXTRACT_DIR) = Content(fs0, EXTRACT_DIR)
        \/ /\ find_asset_url(release.assets) # None
           /\ Content(fs, EXTRACT_DIR) = Payload(IntactArchive(release))

\* C3: when extraction fails, the installation directory is as it was before
\* the run.
C3_ExtractFailureLeavesInstall ==
    outcome \in {"extract_failed", "extract_blocked"} => Install = InstallAtEntry

\* C4: on every exit path of main the scratch directories it created are gone
\* when the run ends.
C4_NoScratchAfterExit ==
    (pc = "idle" /\ outcome \notin {"none", "killed"} /\ ~Scratch(fs0)) => ~Scratch(fs)

\* C5: after a run that installed and recorded tag T, a run against a release
\* that still reports T ends as up to date, with no download and no install, and
\* leaves the installation and the stored version as they were.
C5_SecondRunIsNoOp ==
    (prev.outcome = "complete" /\ prev.tag = release.tag_name /\ outcome # "none") =>
        /\ ~Proceeded
        /\ ~moved
        /\ writes = 0
        /\ Install = InstallAtStart
        /\ versionFile = version0

\* C6: within one run the version file is written at most once and only after
\* the candidate was moved into the installation path; a run in which download,
\* extraction, removal or move fails leaves the stored version as it was.
C6_VersionWrittenOnceAfterMove ==
    /\ writes <= 1
    /\ writes = 1 => moved
    /\ writes = 0 => versionFile = version0
    /\ outcome \in {"download_failed", "extract_failed", "extract_blocked", "remove_failed", "move_failed"} =>
          versionFile = version0 /\ writes = 0

C6_Witness ==
    /\ outcome = "complete"
    /\ writes = 1
    /\ moved
    /\ version0.exists
    /\ versionFile = [exists |-> TRUE, text |-> <<release.tag_name>>]
    /\ versionFile # version0

\* The last run was interrupted and left scratch directories, and nothing else
\* of it is in the installation directory.
StaleScratch ==
    /\ prev.outcome = "killed"
    /\ Scratch(fs0)
    /\ \A n \in Below(fs0, EXTRACT_DIR) : IsPrefix(Join(EXTRACT_DIR, STAGING_NAME), n.path)

\* C7: scratch directories left by an interrupted run never block a later run and
\* never end up in the installation: the run is not stopped by what is on disk,
\* and when it completes the installation directory holds exactly the new
\* release's payload.
C7_StaleScratchHarmless ==
    StaleScratch =>
        /\ outcome # "extract_blocked"
        /\ outcome = "complete" => Content(fs, EXTRACT_DIR) = Payload(IntactArchive(release))

\* C8: when no asset matches, the run, module initialisation included, leaves the
\* installation directory (and whether it exists) and the stored version as they
\* were, and downloads and installs nothing.
C8_NoAssetNoMutation ==
    outcome = "no_asset" =>
        /\ Install = InstallAtStart
        /\ versionFile = version0
        /\ ~downloaded
        /\ ~moved

C10_VersionWriteAtomic ==
    versionFile.exists =>
        /\ Len(versionFile.text) = 1
        /\ versionFile = version0 \/ versionFile.text = <<release.tag_name>>

\* An entry escapes when, extracted under a staging directory, it resolves to a
\* path that is not below that directory.
Escapes(e) == ~IsPrefix(<<"target", STAGING_NAME>>, Resolve(<<"target", STAGING_NAME>> \o e.path))

HasEscape(data) == \E i \in 1..Len(Archive(data).entries) : Escapes(Archive(data).entries[i])

\* The directories the program works in.
WorkArea == {EXTRACT_DIR, CANDIDATE_DIR, DOWNLOAD_DIR}

\* C11: extraction rejects an archive entry whose resolved path escapes the staging
\* area: the install of such an archive fails, and no file is created outside the
\* scratch area.
C11_PathEscapeRejected ==
    /\ \A n \in fs : \E w \in WorkArea : IsPrefix(w, n.path)
    /\ (archive # "" /\ HasEscape(archive)) => ~moved /\ outcome # "complete"

\* The archive has exactly one top-level entry and it is a directory.
SoleTopDir(data) ==
    LET es == Archive(data).entries
    IN /\ es # <<>>
       /\ \A i \in 1..Len(es) : es[i].path[1] = es[1].path[1] /\ (Len(es[i].path) = 1 => es[i].kind = "dir")

\* The archive can be read to its end and has the expected shape.
WellFormed(data) ==
    /\ Archive(data).opens
    /\ Archive(data).good = Len(Archive(data).entries)
    /\ SoleTopDir(data)
    /\ ~HasEscape(data)

\* C12: with no local version stored or a strictly greater remote tag, a matching
\* asset and no external failure, the run completes whatever the prior
\* installation holds: the installation directory is exactly the new payload and
\* the stored version is the remote tag.
C12_UpdateReplacesWholesale ==
    (pc = "idle" /\ outcome \in {"complete", "extract_blocked"} /\ RemoteNewer
        /\ ~Scratch(fs0) /\ WellFormed(archive)) =>
        /\ outcome = "complete"
        /\ Content(fs, EXTRACT_DIR) = Payload(archive)
        /\ versionFile = [exists |-> TRUE, text |-> <<release.tag_name>>]

\* The indexes of the assets whose name matches the pattern.
Matching(assets) == {i \in 1..Len(assets) : re_match(assets[i].name)}

\* C13: find_asset_url returns the download URL of the first asset, in manifest
\* order, whose name matches the pattern, and none (no error) when no asset
\* matches.
C13_FirstMatchWins ==
    /\ pc = "read_local_version" =>
          \E i \in Matching(release.assets) :
              /\ \A j \in Matching(release.assets) : i <= j
              /\ asset_url = release.assets[i].browser_download_url
    /\ outcome = "no_asset" => Matching(release.assets) = {}
    /\ (pc = "idle" /\ outcome \notin {"none", "killed"} /\ Matching(release.assets) = {}) =>
          outcome \in {"no_asset", "fetch_failed"}

C13_Witness ==
    /\ pc = "read_local_version"
    /\ \E i, j \in Matching(release.assets) :
          /\ i < j
          /\ release.assets[i].browser_download_url # release.assets[j].browser_download_url
          /\ asset_url = release.assets[i].browser_download_url
          /\ 1 \notin Matching(release.assets)

\* The stored version at the start is strictly newer than the remote tag.
LocalNewer ==
    version0.exists /\ version0.text # <<>> /\ VersionGT(parse(version0.text[1]), parse(release.tag_name))

\* C14: when the stored version is strictly greater than the remote tag the run
\* ends as up to date: nothing is downloaded, installed or written and the
\* installation directory and the stored version are unchanged.
C14_LocalNewerIsIdle ==
    (LocalNewer /\ outcome # "none") =>
        /\ ~Proceeded
        /\ ~downloaded /\ ~moved /\ writes = 0
        /\ Install = InstallAtEntry
        /\ versionFile = version0
        /\ pc = "idle" => outcome \in {"up_to_date", "fetch_failed", "no_asset", "read_failed", "killed"}

C14_Witness ==
    /\ outcome = "up_to_date"
    /\ LocalNewer
    /\ version0.text[1].prefix # release.tag_name.prefix
    /\ Below(fs, EXTRACT_DIR) # {}

\* C15: for an archive whose only top-level entry is a directory, a call of
\* extract_tar_gz on an empty target that returns leaves exactly the children of
\* that directory, with their subtrees, under the target: no entry of the
\* directory's name and no staging sub-directory.
C15_Unwrap ==
    /\ (pc = "makedirs_candidate" /\ SoleTopDir(archive) /\ Below(fs0, EXTRACT_DIR) = {}) =>
          /\ Content(fs, EXTRACT_DIR) = Payload(archive)
          /\ ~Exists(fs, Join(EXTRACT_DIR, STAGING_NAME))
    /\ (pc = "exists" /\ SoleTopDir(archive) /\ Below(fs0, CANDIDATE_DIR) = {}) =>
          /\ Content(fs, CANDIDATE_DIR) = Payload(archive)
          /\ ~Exists(fs, Join(CANDIDATE_DIR, STAGING_NAME))

C15_Witness ==
    /\ pc = "exists"
    /\ archive = "A"
    /\ Below(fs0, CANDIDATE_DIR) = {}
    /\ File(<<"frp-temp", "conf", "ini">>, "a") \in fs
    /\ ~Exists(fs, <<"frp-temp", "frp_a">>)

\* C16: an archive whose top level is not exactly one directory is rejected before
\* the installation directory is changed, and the scratch directories are
\* cleaned up.
C16_BadShapeRejected ==
    (archive # "" /\ Archive(archive).opens /\ Archive(archive).good = Len(Archive(archive).entries)
        /\ ~HasEscape(archive) /\ ~SoleTopDir(archive) /\ ~Scratch(fs0)) =>
        /\ ~moved
        /\ outcome # "complete"
        /\ outcome = "extract_blocked" => Install = InstallAtEntry /\ ~Scratch(fs)

\* C17: when an installation exists at the start of a run, the installation path
\* is absent only between the removal of line 123 and the move of line 126.
C17_AbsentOnlyInWindow ==
    (Exists(fs0, EXTRACT_DIR) /\ ~Exists(fs, EXTRACT_DIR)) =>
        \/ pc = "rename"
        \/ pc = "idle" /\ outcome \in {"move_failed", "killed"}

C17_Witness ==
    /\ pc = "rename"
    /\ ~Exists(fs, EXTRACT_DIR)
    /\ Below(fs0, EXTRACT_DIR) # {}
    /\ Exists(fs, CANDIDATE_DIR)

\* C18: the parsed value of the stored version never decreases: a tag written to
\* the version file is greater than or equal to the tag stored at the start of the
\* run, and nothing is written over a version file that holds no tag.
C18_VersionMonotone ==
    /\ (version0.exists /\ version0.text # <<>> /\ versionFile.text # <<>>) =>
          ~VersionGT(parse(version0.text[1]), parse(versionFile.text[1]))
    /\ (version0.exists /\ version0.text = <<>>) => writes = 0
    /\ version0.exists => versionFile.exists

C18_Witness ==
    /\ writes = 1
    /\ version0.exists
    /\ version0.text # <<>>
    /\ versionFile.text = <<release.tag_name>>
    /\ VersionGT(parse(versionFile.text[1]), parse(version0.text[1]))

====
